---- MODULE Spec2Model ----
(***************************************************************************)
(* A model of the Clover pollers of this repository, with the upstream     *)
(* order API, the 'ikds' collection and the 'orders' channel as their      *)
(* environment.  `program` says which of them runs in a behaviour:         *)
(*   "timeGated"   src/poller.js lines 190-392 (seenItemsMap, schedule)    *)
(*   "idTracked"   src/poller.js lines 1-188 (seenItemsMap, setInterval)   *)
(*   "orderLevel"  src/unnamed/part_001 (seenOrders, setInterval)          *)
(*   "testScript"  src/unnamed/part_000 lines 1-101 (main, one pass)       *)
(*                                                                         *)
(* One action per resumption of the async function: the code between two   *)
(* awaits runs without interruption, so each action is the await's outcome *)
(* followed by the synchronous code up to the next await.  The upstream is *)
(* read page by page within a cycle; it changes between cycles.  Another   *)
(* writer (the kitchen display) may change workflow states in the          *)
(* collection at any time.  Cycles are taken one at a time.                *)
(***************************************************************************)
EXTENDS Integers, Sequences, FiniteSets, TLC

\* ---------------------------------------------------------------- bounds
MaxOrders  == 2     \* orders the upstream ever holds
MaxItems   == 2     \* line-item ids per order
MaxCycles  == 2     \* pollOnce runs in one behaviour
MaxKitchen == 2     \* writes of the other writer in one behaviour
MaxStart   == 1     \* orders upstream when the order-level poller or the test script starts
MaxOverlap == 1     \* runs of pollOnce started while another is suspended, per process

\* ------------------------------------------------------ program constants
\* const limit = 100: scaled down so that full and short pages are enumerable
limit    == 2
\* 2 * 60 * 60 * 1000 ms: the clock of the model counts hours
TwoHours == 2
\* the test script's ?limit=10
TestLimit == 10

Programs == {"timeGated", "orderLevel", "testScript"}

\* The pollers that track line items by id in seenItemsMap.
IdentityTracked == {"timeGated", "idTracked"}

ignoreItems == {"Bottled Water", "Powerade", "Powerade Big", "Coke Soda", "Mango Nectur"}

OrderIds == 1..MaxOrders
ItemIds  == 1..MaxItems

\* The name a line item carries upstream: fixed per line item.
LineItemName(orderId, itemId) ==
  IF itemId = 1 THEN "Latte"
  ELSE IF orderId = 1 THEN "Muffin" ELSE "Bottled Water"

\* o.title: absent ("" here) or a text, fixed per order.
TitleOf(orderId) == IF orderId = 1 THEN "" ELSE "Table 2"

NoOrder == [id |-> 0, createdTime |-> 0, modifiedTime |-> 0, title |-> "", items |-> <<>>]
NoError == [kind |-> "none", order |-> 0]

\* No second run of pollOnce is suspended; `started` counts those there were.
NoRun ==
  [pc |-> "timer", started |-> 0, offset |-> 0, elements |-> <<>>, recent |-> <<>>,
   cur |-> NoOrder, newOnes |-> <<>>, existing |-> <<>>, finalItems |-> <<>>]

\* ---------------------------------------------------------------- helpers
Range(s) == {s[k] : k \in 1..Len(s)}

Ids(s) == {s[k].id : k \in 1..Len(s)}

Names(s) == [k \in 1..Len(s) |-> s[k].name]

Min(a, b) == IF a < b THEN a ELSE b

\* All sequences of distinct members of S.
RECURSIVE Arrangements(_)
Arrangements(S) ==
  IF S = {} THEN {<<>>}
  ELSE UNION {{<<x>> \o t : t \in Arrangements(S \ {x})} : x \in S}

\* The lineItems.elements an order may carry: distinct line-item ids, any order.
ItemLists(orderId) ==
  {[k \in 1..Len(a) |-> [id |-> a[k], name |-> LineItemName(orderId, a[k])]] :
     a \in UNION {Arrangements(T) : T \in SUBSET ItemIds}}

\* ------------------------------------------------------------------ state
VARIABLES
  program,       \* which program of the repository runs
  now,           \* Date.now(), in hours
  upstream,      \* the orders the Clover API holds, in the order it returns them
  db,            \* collection 'ikds': orderId -> document, for the persisted orders
  seenItemsMap,  \* Map<orderId, Set<lineItemId>>
  seenOrders,    \* Set<orderId> of the order-level poller
  pc,            \* where the scheduler / pollOnce / main is suspended
  twoHoursAgo,   \* pollOnce locals
  offset,
  elements,
  recent,        \* the orders of the for-loop not yet taken
  cur,           \* o, the order being processed
  newOnes,
  existing,      \* <<>> for null, <<doc>> otherwise
  finalItems,
  filteredItems,
  published,     \* payloads triggered on 'orders'/'order-updated' in this cycle
  cycle,         \* cycles so far
  procCycle,     \* cycles of the current process
  reached,       \* orders whose processing got as far as awaiting findOne in this cycle
  written,       \* orders upserted in this cycle
  lastError,     \* how the current cycle failed, if it did
  prevIds,       \* <<>> or <<f>>: f maps the orders upstream in the previous cycle of this process to their item ids
  prevReached,   \* `reached` of the previous cycle of this process
  firstObs,      \* order -> "empty" | "items": its item list when the for-loop of this process first took it
  kitchenOps,    \* writes of the other writer so far
  timers,        \* pending invocations of schedule (setTimeout callbacks not yet run)
  inFlight,      \* runs of pollOnce / main that have started and not ended
  counted,       \* <<orderId, itemId>> that a cycle of this process had in newOnes
  utcHour,       \* now.getUTCHours() as the last run of schedule read it, -1 before any
  other          \* the locals of a run of pollOnce that a tick of setInterval started
                 \* while the run above was suspended

vars == <<program, now, upstream, db, seenItemsMap, seenOrders, pc, twoHoursAgo, offset,
          elements, recent, cur, newOnes, existing, finalItems, filteredItems, published,
          cycle, procCycle, reached, written, lastError, prevIds, prevReached, firstObs,
          kitchenOps, timers, inFlight, counted, utcHour, other>>

\* An order as the API returns it.
Order(id, created, items) ==
  [id |-> id, createdTime |-> created, modifiedTime |-> created,
   title |-> TitleOf(id), items |-> items]

\* The upstreams a process may start against: newest id first, each order
\* older than the window or inside it, with any item list.
InitUpstreams(t) ==
  UNION {
    {u \in [1..n -> UNION {{Order(id, c, il) : c \in {t - TwoHours - 1, t}, il \in ItemLists(id)} : id \in 1..n}] :
        \A k \in 1..n : u[k].id = n + 1 - k}
    : n \in 0..MaxOrders}

\* What the upstream may have become when the next cycle reads it: unchanged,
\* one order with another item list, or one new order in front.
UpstreamNext(u, t) ==
  {u}
  \cup UNION {{[u EXCEPT ![k].items = il, ![k].modifiedTime = t] : il \in ItemLists(u[k].id)} :
                k \in 1..Len(u)}
  \cup (IF Len(u) < MaxOrders
        THEN {<<Order(Len(u) + 1, t, il)>> \o u : il \in ItemLists(Len(u) + 1)}
        ELSE {})

\* The wall clock when the next cycle starts: the same hour, or past the window.
ClockNext(t) == {t, t + TwoHours + 1}

\* A process just started, before its first cycle: start() has connected
\* and calls schedule() (src/poller.js:386), pollOnce() or main() once.
InitLocals ==
  /\ now = TwoHours + 1
  /\ timers = 1
  /\ inFlight = 0
  /\ counted = {}
  /\ utcHour = -1
  /\ other = NoRun
  /\ db = <<>>
  /\ seenItemsMap = <<>>
  /\ seenOrders = {}
  /\ pc = "timer"
  /\ twoHoursAgo = 0
  /\ offset = 0
  /\ elements = <<>>
  /\ recent = <<>>
  /\ cur = NoOrder
  /\ newOnes = <<>>
  /\ existing = <<>>
  /\ finalItems = <<>>
  /\ filteredItems = <<>>
  /\ published = <<>>
  /\ cycle = 0
  /\ procCycle = 0
  /\ reached = {}
  /\ written = {}
  /\ lastError = NoError
  /\ prevIds = <<>>
  /\ prevReached = {}
  /\ firstObs = <<>>
  /\ kitchenOps = 0

InitCommon ==
  /\ InitLocals
  /\ upstream \in InitUpstreams(now)

Init == program = "timeGated" /\ InitCommon

InitAll ==
  /\ program \in Programs
  /\ InitCommon
  /\ program # "timeGated" => Len(upstream) <= MaxStart

\* ------------------------------------------------------- pure functions
\* new Map(saved.map(i => [i.id, i.state])): a later entry of a key replaces an earlier one
idToState(saved) ==
  [d \in Ids(saved) |->
     saved[CHOOSE k \in 1..Len(saved) :
             saved[k].id = d /\ \A j \in (k + 1)..Len(saved) : saved[j].id # d].state]

\* Mutant of StateOf: the saved state is not carried over.
StateOfAlwaysNew(m, id) == "new"

\* idToState.get(li.id) || 'new'
StateOf(m, id) == IF id \in DOMAIN m /\ m[id] # "" THEN m[id] ELSE "new"

\* Mutant of FinalItems: the saved items that were not fetched are kept behind
\* the fetched ones.
FinalItemsUnion(items, saved) ==
  [k \in 1..Len(items) |->
     [id |-> items[k].id, name |-> items[k].name, state |-> StateOf(idToState(saved), items[k].id)]]
  \o SelectSeq(saved, LAMBDA i : i.id \notin Ids(items))

\* src/poller.js lines 299-306: every fetched item, with the state saved under its id
FinalItems(items, saved) ==
  [k \in 1..Len(items) |->
     [id |-> items[k].id, name |-> items[k].name, state |-> StateOf(idToState(saved), items[k].id)]]

\* line 309: finalItems.filter(li => !ignoreItems.includes(li.name))
FilteredItems(final) == SelectSeq(final, LAMBDA li : li.name \notin ignoreItems)

\* Mutant of Recent: the page is cut at its first record older than the bound.
RECURSIVE RecentUntilOld(_, _)
RecentUntilOld(els, bound) ==
  IF els = <<>> \/ Head(els).createdTime < bound THEN <<>>
  ELSE <<Head(els)>> \o RecentUntilOld(Tail(els), bound)

\* line 275: elements.filter(o => o.createdTime >= twoHoursAgo)
Recent(els, bound) == SelectSeq(els, LAMBDA o : o.createdTime >= bound)

\* the page the API returns for limit and offset
Page(u, off) == SubSeq(u, off + 1, Min(off + limit, Len(u)))

\* Mutant of NewOnes: every fetched item counts as new.
NewOnesAll(items, seenSet) == items

\* line 289: items.filter(li => !seenSet.has(li.id))
NewOnes(items, seenSet) == SelectSeq(items, LAMBDA li : li.id \notin seenSet)

\* Mutant of MarkSeen: the new items are not remembered.
MarkSeenNothing(seenSet, news) == seenSet

\* line 291: newOnes.forEach(li => seenSet.add(li.id))
MarkSeen(seenSet, news) == seenSet \cup Ids(news)

\* o.modifiedTime || o.updatedTime || o.createdTime (the API sends no updatedTime)
UpdatedAt(o) == IF o.modifiedTime # 0 THEN o.modifiedTime ELSE o.createdTime

\* lines 350-353: the condition under which paging stops
LastPage(els, bound) == Len(els) < limit \/ els[Len(els)].createdTime < bound

\* Mutant of Upsert: state is among the $set fields.
UpsertSetsState(d, o, items, updatedAt) ==
  [x \in DOMAIN d \cup {o.id} |->
     IF x # o.id THEN d[x]
     ELSE [orderId |-> o.id, state |-> "new",
           createdAt |-> IF x \in DOMAIN d THEN d[x].createdAt ELSE o.createdTime,
           title |-> o.title, items |-> items, updatedAt |-> updatedAt]]

\* updateOne({orderId}, {$set: {title, items, updatedAt}, $setOnInsert: {orderId,
\* state, createdAt}}, {upsert: true})
Upsert(d, o, items, updatedAt) ==
  [x \in DOMAIN d \cup {o.id} |->
     IF x # o.id THEN d[x]
     ELSE IF x \in DOMAIN d
          THEN [d[x] EXCEPT !.title = o.title, !.items = items, !.updatedAt = updatedAt]
          ELSE [orderId |-> o.id, state |-> "new", createdAt |-> o.createdTime,
                title |-> o.title, items |-> items, updatedAt |-> updatedAt]]

\* Mutant of Payload: newItems leaves out the items whose ids are persisted.
PayloadNewItemsUnsaved(o, final, news, ex) ==
  [orderId |-> o.id, title |-> o.title, items |-> final,
   newItems |-> Names(SelectSeq(news, LAMBDA li :
                        ex = <<>> \/ li.id \notin Ids(ex[1].items))),
   state |-> IF ex # <<>> THEN "undefined" ELSE "new", updatedAt |-> UpdatedAt(o)]

\* Mutant of Payload: state is "new" in every payload.
PayloadStateNew(o, final, news, ex) ==
  [orderId |-> o.id, title |-> o.title, items |-> final, newItems |-> Names(news),
   state |-> "new", updatedAt |-> UpdatedAt(o)]

\* src/poller.js lines 333-340: the payload of the 'order-updated' event
Payload(o, final, news, ex) ==
  [orderId |-> o.id, title |-> o.title, items |-> final, newItems |-> Names(news),
   state |-> IF ex # <<>> THEN "undefined" ELSE "new", updatedAt |-> UpdatedAt(o)]

\* part_001 lines 136-143: the order-level poller's payload has no newItems
OrderPayload(o, final, ex) ==
  [orderId |-> o.id, title |-> o.title, items |-> final,
   state |-> IF ex # <<>> THEN "undefined" ELSE "new", updatedAt |-> UpdatedAt(o)]

\* (o.lineItems?.elements || []).map(li => li.name || li.item?.name).filter(n => !!n)
cloverNames(items) == SelectSeq(Names(items), LAMBDA n : n # "")

\* Map.prototype.set on a Map kept as its entries in insertion order
MapSet(m, name, state) ==
  IF \E k \in 1..Len(m) : m[k].name = name
  THEN [k \in 1..Len(m) |-> IF m[k].name = name THEN [name |-> name, state |-> state] ELSE m[k]]
  ELSE Append(m, [name |-> name, state |-> state])

\* new Map(savedItems.map(i => [i.name, i.state]))
RECURSIVE MapOf(_, _)
MapOf(m, saved) ==
  IF saved = <<>> THEN m
  ELSE MapOf(MapSet(m, Head(saved).name, Head(saved).state), Tail(saved))

nameToState(saved) == MapOf(<<>>, saved)

\* cloverNames.forEach(name => { if (!nameToState.has(name)) nameToState.set(name, 'new') })
RECURSIVE AddNew(_, _)
AddNew(m, names) ==
  IF names = <<>> THEN m
  ELSE AddNew(IF \E k \in 1..Len(m) : m[k].name = Head(names)
              THEN m ELSE MapSet(m, Head(names), "new"),
              Tail(names))

\* Mutant of NameMerge: the result is built from the fetched names alone.
NameMergeFreshOnly(names, savedItems) ==
  [k \in 1..Len(names) |->
     [name |-> names[k],
      state |-> IF \E j \in 1..Len(savedItems) : savedItems[j].name = names[k]
                THEN (CHOOSE e \in Range(nameToState(savedItems)) : e.name = names[k]).state
                ELSE "new"]]

\* src/poller.js lines 507-514: the merge of the third poller, which has no
\* fallback to savedItems
\* Array.from(nameToState, ([name, state]) => ({ name, state }))
NameMergeAll(names, savedItems) == AddNew(nameToState(savedItems), names)

\* part_000 lines 61-68, part_001 lines 102-115:
\* cloverNames.length ? Array.from(nameToState, ([name, state]) => ({name, state})) : savedItems
NameMerge(names, savedItems) ==
  IF Len(names) # 0 THEN AddNew(nameToState(savedItems), names) ELSE savedItems

\* ?orderBy=createdTime DESC (orders of one creation time keep their places)
RECURSIVE SortDesc(_)
SortDesc(u) ==
  IF u = <<>> THEN <<>>
  ELSE LET top == CHOOSE k \in 1..Len(u) :
                    /\ \A j \in 1..Len(u) : u[j].createdTime <= u[k].createdTime
                    /\ \A j \in 1..(k - 1) : u[j].createdTime < u[k].createdTime
       IN <<u[top]>> \o SortDesc(SubSeq(u, 1, top - 1) \o SubSeq(u, top + 1, Len(u)))

\* the test script's single request: the ten newest orders
TestPage(u) == SubSeq(SortDesc(u), 1, Min(TestLimit, Len(u)))

\* Mutant of Continue: no order is passed over.
ContinueNever(o) == FALSE

\* Whether the for-loop passes over order o without awaiting anything:
\*   timeGated   line 279     if (items.length === 0) continue
\*   idTracked   line 87      if (items.length === 0) continue
\*   orderLevel  part_001:88  if (seenOrders.has(o.id)) continue
Continue(o) ==
  CASE program \in IdentityTracked -> Len(o.items) = 0
    [] program = "orderLevel" -> o.id \in seenOrders
    [] OTHER                  -> FALSE

RECURSIVE Skip(_)
Skip(rest) ==
  IF rest = <<>> THEN <<>>
  ELSE IF Continue(Head(rest)) THEN Skip(Tail(rest)) ELSE rest

\* firstObs after the loop took the orders of `taken`
RECURSIVE Observe(_, _)
Observe(f, taken) ==
  IF taken = <<>> THEN f
  ELSE LET o == Head(taken) IN
       Observe([x \in DOMAIN f \cup {o.id} |->
                  IF x \in DOMAIN f THEN f[x]
                  ELSE IF Len(o.items) = 0 THEN "empty" ELSE "items"],
               Tail(taken))

\* ---------------------------------------------------------------- actions
\* Mutant of Fired: the callback is armed again as soon as it runs.
FiredAndArmedAgain(t) == t

\* schedule() has been invoked: the timeout that invoked it is spent, and the
\* function arms no other before its finally block (lines 361-373).
Fired(t) == t - 1

\* Mutant of setTimeout: no invocation is armed.
setTimeoutDropped(t) == t

\* finally { setTimeout(schedule, 1000) }, line 378
setTimeout(t) == t + 1

\* The run ends: pollOnce has returned or thrown; in the time-gated poller
\* schedule's finally block follows (lines 374-379).
EndCycle ==
  /\ inFlight' = inFlight - 1
  /\ timers' = IF program = "timeGated" THEN setTimeout(timers) ELSE timers

\* The locals of the loop body go out of scope.
ClearLocals ==
  /\ elements' = <<>>
  /\ recent' = <<>>
  /\ cur' = NoOrder
  /\ newOnes' = <<>>
  /\ existing' = <<>>
  /\ finalItems' = <<>>
  /\ filteredItems' = <<>>

\* Mutant of Return: the page is requested again within the cycle.
ReturnAndRetry(err) ==
  /\ pc' = "fetch"
  /\ ClearLocals
  /\ lastError' = err
  /\ UNCHANGED <<offset, seenItemsMap, seenOrders, reached, firstObs, counted, timers, inFlight>>

\* The cycle ends early.  timeGated: pollOnce returns at line 268 or throws
\* into schedule's catch, and the finally block arms the next run (lines
\* 374-379).  orderLevel: break at part_001:77 or the catch at part_001:161.
\* testScript: process.exit(1) at part_000:44 or :100.
Return(err) ==
  /\ pc' = "timer"
  /\ ClearLocals
  /\ lastError' = err
  /\ EndCycle
  /\ UNCHANGED <<offset, seenItemsMap, seenOrders, reached, firstObs, counted>>

\* The for-loop from `rest` on, up to its next await (src/poller.js lines
\* 277-291 and 349-357; part_001 lines 87-97 and 148-155; part_000 lines
\* 51-57).  Orders the loop passes over are skipped; the next order is
\* entered in the dedup structure of the program and its findOne is awaited.
\* With no order left the page is done: paging stops or the offset advances.
ForLoop(rest, els) ==
  LET r     == Skip(rest)
      taken == SubSeq(rest, 1, Len(rest) - Len(r))
  IN
  IF r # <<>>
  THEN LET o       == Head(r)
           seenSet == IF o.id \in DOMAIN seenItemsMap THEN seenItemsMap[o.id] ELSE {}
           news    == NewOnes(o.items, seenSet)
       IN
       /\ pc' = "findOne"
       /\ cur' = o
       /\ recent' = Tail(r)
       /\ elements' = els
       /\ existing' = <<>>
       /\ finalItems' = <<>>
       /\ filteredItems' = <<>>
       /\ reached' = reached \cup {o.id}
       /\ firstObs' = Observe(firstObs, Append(taken, o))
       /\ CASE program \in IdentityTracked ->
                 /\ newOnes' = news
                 /\ counted' = counted \cup {<<o.id, news[k].id>> : k \in 1..Len(news)}
                 /\ seenItemsMap' = [x \in DOMAIN seenItemsMap \cup {o.id} |->
                                       IF x = o.id THEN MarkSeen(seenSet, news)
                                       ELSE seenItemsMap[x]]
                 /\ UNCHANGED seenOrders
            [] program = "orderLevel" ->
                 /\ seenOrders' = seenOrders \cup {o.id}
                 /\ UNCHANGED <<newOnes, seenItemsMap, counted>>
            [] OTHER ->
                 UNCHANGED <<newOnes, seenItemsMap, seenOrders, counted>>
       /\ UNCHANGED <<offset, lastError, timers, inFlight>>
  ELSE IF program = "testScript" \/ LastPage(els, twoHoursAgo)
  THEN /\ pc' = "timer"
       /\ ClearLocals
       /\ EndCycle
       /\ firstObs' = Observe(firstObs, taken)
       /\ UNCHANGED <<offset, seenItemsMap, seenOrders, reached, lastError, counted>>
  ELSE /\ pc' = "fetch"
       /\ offset' = offset + limit
       /\ ClearLocals
       /\ firstObs' = Observe(firstObs, taken)
       /\ UNCHANGED <<seenItemsMap, seenOrders, reached, lastError, timers, inFlight, counted>>

clock == <<program, now, upstream, cycle, procCycle, prevIds, prevReached, twoHoursAgo, utcHour>>

env == <<clock, other>>

\* A cycle starts against the upstream as it is by now.
Begin ==
  /\ cycle < MaxCycles
  /\ inFlight' = inFlight + 1
  /\ \E t \in ClockNext(now) : \E u \in UpstreamNext(upstream, t) :
       /\ now' = t
       /\ upstream' = u
       /\ twoHoursAgo' = IF program = "testScript" THEN twoHoursAgo ELSE t - TwoHours
  /\ pc' = "fetch"
  /\ offset' = 0
  /\ cycle' = cycle + 1
  /\ reached' = {}
  /\ written' = {}
  /\ published' = <<>>
  /\ lastError' = NoError
  /\ UNCHANGED <<program, db, seenItemsMap, seenOrders, elements, recent, cur, newOnes,
                 existing, finalItems, filteredItems, kitchenOps, counted, other>>

\* The item ids every upstream order carries.
IdsByOrder(u) == [x \in Ids(u) |-> Ids((CHOOSE o \in Range(u) : o.id = x).items)]

\* One more cycle of the running process.
NextCycle ==
  /\ procCycle' = procCycle + 1
  /\ prevIds' = IF procCycle > 0 THEN <<IdsByOrder(upstream)>> ELSE <<>>
  /\ prevReached' = reached
  /\ UNCHANGED firstObs

\* Mutant of InHours: polling starts an hour late.
InHoursFromNoon(h) == LET edtHour == (h + 24 - 4) % 24 IN edtHour > 11 /\ edtHour < 24

\* Compute current EDT hour (UTC-4); only run between 11:00 and 23:59 EDT.
InHours(h) == LET edtHour == (h + 24 - 4) % 24 IN edtHour >= 11 /\ edtHour < 24

\* schedule(), src/poller.js lines 361-370, inside the polling hours: pollOnce
\* starts (lines 252-254).
SchedulePoll ==
  /\ program = "timeGated"
  /\ timers > 0
  /\ timers' = Fired(timers)
  /\ {h \in 0..23 : InHours(h)} # {}
  /\ UNCHANGED utcHour
  /\ Begin
  /\ NextCycle

\* schedule(), lines 361-373, outside the polling hours: nothing but the log line.
ScheduleSkip ==
  /\ program = "timeGated"
  /\ timers > 0
  /\ {h \in 0..23 : ~InHours(h)} # {}
  /\ UNCHANGED vars

\* schedule(), lines 361-380, with the hour it reads: inside the polling hours
\* pollOnce starts, outside them the run does nothing and is armed again.
ScheduleAt(h) ==
  /\ program = "timeGated"
  /\ timers > 0
  /\ utcHour' = h
  /\ IF InHours(h)
     THEN /\ timers' = Fired(timers)
          /\ Begin
          /\ NextCycle
     ELSE UNCHANGED <<program, now, upstream, db, seenItemsMap, seenOrders, pc, twoHoursAgo,
                      offset, elements, recent, cur, newOnes, existing, finalItems,
                      filteredItems, published, cycle, procCycle, reached, written,
                      lastError, prevIds, prevReached, firstObs, kitchenOps, timers,
                      inFlight, counted, other>>

\* A run of schedule at whatever hour of the day it is.
ScheduleAnyHour == \E h \in 0..23 : ScheduleAt(h)

\* part_001 lines 166-174, src/poller.js lines 178-183: pollOnce at start and
\* on a tick of setInterval, the previous run having ended.
IntervalPoll ==
  /\ program \in {"orderLevel", "idTracked"}
  /\ pc = "timer"
  /\ UNCHANGED <<timers, utcHour>>
  /\ Begin
  /\ NextCycle

\* part_000 lines 6-48: one run of the test script, a process of its own.
RunScript ==
  /\ program = "testScript"
  /\ pc = "timer"
  /\ UNCHANGED <<timers, utcHour>>
  /\ Begin
  /\ procCycle' = 1
  /\ prevIds' = <<>>
  /\ prevReached' = {}
  /\ firstObs' = <<>>

\* await fetch(url) and resp.json(), then the loop.
FetchPage ==
  /\ pc = "fetch"
  /\ \/ \E kind \in {"fetch", "network"} : Return([kind |-> kind, order |-> 0])
     \/ IF program = "testScript"
        THEN ForLoop(TestPage(upstream), TestPage(upstream))
        ELSE LET els == Page(upstream, offset) IN
             IF Len(els) = 0 THEN Return(NoError) ELSE ForLoop(Recent(els, twoHoursAgo), els)
  /\ UNCHANGED <<env, db, published, written, kitchenOps>>

\* await col.findOne, then the merge.
FindOne ==
  /\ pc = "findOne"
  /\ \/ Return([kind |-> "findOne", order |-> cur.id])
     \/ LET ex    == IF cur.id \in DOMAIN db THEN <<db[cur.id]>> ELSE <<>>
            saved == IF ex # <<>> THEN ex[1].items ELSE <<>>
        IN
        /\ existing' = ex
        /\ CASE program = "timeGated" ->
                  /\ finalItems' = FinalItems(cur.items, saved)
                  /\ filteredItems' = FilteredItems(FinalItems(cur.items, saved))
             [] program = "idTracked" ->
                  /\ finalItems' = FinalItems(cur.items, saved)
                  /\ UNCHANGED filteredItems
             [] OTHER ->
                  /\ finalItems' = NameMerge(cloverNames(cur.items), saved)
                  /\ UNCHANGED filteredItems
        /\ pc' = "updateOne"
        /\ UNCHANGED <<offset, elements, recent, cur, newOnes, seenItemsMap, seenOrders,
                       reached, firstObs, lastError, timers, inFlight, counted>>
  /\ UNCHANGED <<env, db, published, written, kitchenOps>>

\* Mutant of UpdateOne: the publish follows a failed upsert too.
UpdateOnePublishesAnyway ==
  /\ pc = "updateOne"
  /\ \/ /\ pc' = "trigger"
        /\ UNCHANGED <<db, written, offset, elements, recent, cur, newOnes, existing,
                       finalItems, filteredItems, seenItemsMap, seenOrders, reached,
                       firstObs, lastError, timers, inFlight, counted>>
     \/ /\ db' = Upsert(db, cur,
                        IF program = "timeGated" THEN filteredItems ELSE finalItems,
                        IF program = "testScript" THEN cur.modifiedTime ELSE UpdatedAt(cur))
        /\ written' = written \cup {cur.id}
        /\ IF \/ program \in {"orderLevel", "idTracked"}
              \/ program = "timeGated" /\ Len(newOnes) > 0
           THEN /\ pc' = "trigger"
                /\ UNCHANGED <<offset, elements, recent, cur, newOnes, existing, finalItems,
                               filteredItems, seenItemsMap, seenOrders, reached, firstObs,
                               lastError, timers, inFlight, counted>>
           ELSE ForLoop(recent, elements)
  /\ UNCHANGED <<env, published, kitchenOps>>

\* await col.updateOne, then the decision to emit.
UpdateOne ==
  /\ pc = "updateOne"
  /\ \/ /\ Return([kind |-> "updateOne", order |-> cur.id])
        /\ UNCHANGED <<db, written>>
     \/ /\ db' = Upsert(db, cur,
                        IF program = "timeGated" THEN filteredItems ELSE finalItems,
                        IF program = "testScript" THEN cur.modifiedTime ELSE UpdatedAt(cur))
        /\ written' = written \cup {cur.id}
        /\ IF \/ program \in {"orderLevel", "idTracked"}
              \/ program = "timeGated" /\ Len(newOnes) > 0
           THEN /\ pc' = "trigger"
                /\ UNCHANGED <<offset, elements, recent, cur, newOnes, existing, finalItems,
                               filteredItems, seenItemsMap, seenOrders, reached, firstObs,
                               lastError, timers, inFlight, counted>>
           ELSE ForLoop(recent, elements)
  /\ UNCHANGED <<env, published, kitchenOps>>

\* Mutant of Trigger: a failed publish takes the upsert back.
TriggerRollsBack ==
  /\ pc = "trigger"
  /\ \/ /\ Return([kind |-> "trigger", order |-> cur.id])
        /\ db' = IF existing # <<>> THEN [db EXCEPT ![cur.id] = existing[1]]
                 ELSE [x \in DOMAIN db \ {cur.id} |-> db[x]]
        /\ UNCHANGED published
     \/ /\ published' = Append(published,
                               IF program \in IdentityTracked
                               THEN Payload(cur, finalItems, newOnes, existing)
                               ELSE OrderPayload(cur, finalItems, existing))
        /\ ForLoop(recent, elements)
        /\ UNCHANGED db
  /\ UNCHANGED <<env, written, kitchenOps>>

\* await pusher.trigger('orders', 'order-updated', ...), then the loop goes on.
Trigger ==
  /\ pc = "trigger"
  /\ \/ /\ Return([kind |-> "trigger", order |-> cur.id])
        /\ UNCHANGED published
     \/ /\ published' = Append(published,
                               IF program \in IdentityTracked
                               THEN Payload(cur, finalItems, newOnes, existing)
                               ELSE OrderPayload(cur, finalItems, existing))
        /\ ForLoop(recent, elements)
  /\ UNCHANGED <<env, db, written, kitchenOps>>

\* The other writer of the collection sets an item's or an order's workflow state.
Kitchen ==
  /\ kitchenOps < MaxKitchen
  /\ kitchenOps' = kitchenOps + 1
  /\ \E x \in DOMAIN db :
       \/ /\ db[x].state # "done"
          /\ db' = [db EXCEPT ![x].state = "done"]
       \/ \E k \in 1..Len(db[x].items) :
            /\ db[x].items[k].state # "ready"
            /\ db' = [db EXCEPT ![x].items[k].state = "ready"]
  /\ UNCHANGED <<env, seenItemsMap, seenOrders, pc, offset, elements, recent, cur, newOnes,
                 existing, finalItems, filteredItems, published, reached, written,
                 lastError, firstObs, timers, inFlight, counted>>

\* The poller process is restarted between two cycles: its memory is gone,
\* the collection is not.
Restart ==
  /\ program # "testScript"
  /\ pc = "timer"
  /\ procCycle > 0
  /\ procCycle' = 0
  /\ timers' = 1
  /\ inFlight' = 0
  /\ counted' = {}
  /\ other' = NoRun
  /\ seenItemsMap' = <<>>
  /\ seenOrders' = {}
  /\ firstObs' = <<>>
  /\ prevIds' = <<>>
  /\ prevReached' = {}
  /\ reached' = {}
  /\ written' = {}
  /\ published' = <<>>
  /\ lastError' = NoError
  /\ offset' = 0
  /\ UNCHANGED <<program, now, upstream, cycle, twoHoursAgo, db, pc, elements, recent, cur,
                 newOnes, existing, finalItems, filteredItems, kitchenOps, utcHour>>

\* ---------------------------------------------- a second run in flight
\* What a run started while another is suspended leaves alone: the locals and
\* the bookkeeping of that other run.
suspended == <<pc, offset, elements, recent, cur, newOnes, existing, finalItems,
               filteredItems, reached, written, lastError, firstObs, timers, counted,
               seenOrders, kitchenOps>>

\* setInterval(pollOnce, 1000), src/poller.js line 182 (and line 566): the
\* timer fires a second after the last tick whether or not the run that tick
\* started has settled.  Only the first run is awaited (line 181), so the run
\* in progress is one a tick has started.
IntervalOverlap ==
  /\ program = "idTracked"
  /\ procCycle >= 2
  /\ pc # "timer"
  /\ other.pc = "timer"
  /\ other.started < MaxOverlap
  /\ other' = [NoRun EXCEPT !.started = other.started + 1, !.pc = "fetch"]
  /\ inFlight' = inFlight + 1
  /\ UNCHANGED <<clock, suspended, seenItemsMap, db, published>>

\* The second run ends: break at lines 76 and 81, the end of paging at lines
\* 165-171, the catch at lines 173-175.
OtherReturn ==
  /\ other' = [NoRun EXCEPT !.started = other.started]
  /\ inFlight' = inFlight - 1

\* The for-loop of the second run from `rest` on, up to its next await (lines
\* 85-104 and 164-172): the same code as ForLoop, on the locals of this run
\* and the seenItemsMap both runs share.
OtherForLoop(rest, els) ==
  LET r == Skip(rest) IN
  IF r # <<>>
  THEN LET o       == Head(r)
           seenSet == IF o.id \in DOMAIN seenItemsMap THEN seenItemsMap[o.id] ELSE {}
           news    == NewOnes(o.items, seenSet)
       IN
       /\ other' = [other EXCEPT !.pc = "findOne", !.elements = els, !.recent = Tail(r),
                                 !.cur = o, !.newOnes = news, !.existing = <<>>,
                                 !.finalItems = <<>>]
       /\ seenItemsMap' = [x \in DOMAIN seenItemsMap \cup {o.id} |->
                             IF x = o.id THEN MarkSeen(seenSet, news) ELSE seenItemsMap[x]]
       /\ UNCHANGED inFlight
  ELSE IF LastPage(els, twoHoursAgo)
  THEN /\ OtherReturn
       /\ UNCHANGED seenItemsMap
  ELSE /\ other' = [NoRun EXCEPT !.started = other.started, !.pc = "fetch",
                                 !.offset = other.offset + limit]
       /\ UNCHANGED <<seenItemsMap, inFlight>>

\* await fetch(url) and resp.json() of the second run, lines 71-82.
OtherFetch ==
  /\ other.pc = "fetch"
  /\ \/ /\ OtherReturn
        /\ UNCHANGED seenItemsMap
     \/ LET els == Page(upstream, other.offset) IN
        IF Len(els) = 0
        THEN /\ OtherReturn
             /\ UNCHANGED seenItemsMap
        ELSE OtherForLoop(Recent(els, twoHoursAgo), els)
  /\ UNCHANGED <<clock, suspended, db, published>>

\* await col.findOne of the second run and the merge, lines 109-124.
OtherFindOne ==
  /\ other.pc = "findOne"
  /\ \/ OtherReturn
     \/ LET ex    == IF other.cur.id \in DOMAIN db THEN <<db[other.cur.id]>> ELSE <<>>
            saved == IF ex # <<>> THEN ex[1].items ELSE <<>>
        IN
        /\ other' = [other EXCEPT !.pc = "updateOne", !.existing = ex,
                                  !.finalItems = FinalItems(other.cur.items, saved)]
        /\ UNCHANGED inFlight
  /\ UNCHANGED <<clock, suspended, seenItemsMap, db, published>>

\* await col.updateOne of the second run, lines 127-142.
OtherUpdateOne ==
  /\ other.pc = "updateOne"
  /\ \/ /\ OtherReturn
        /\ UNCHANGED db
     \/ /\ db' = Upsert(db, other.cur, other.finalItems, UpdatedAt(other.cur))
        /\ other' = [other EXCEPT !.pc = "trigger"]
        /\ UNCHANGED inFlight
  /\ UNCHANGED <<clock, suspended, seenItemsMap, published>>

\* await pusher.trigger of the second run, lines 145-153, then its loop goes on.
OtherTrigger ==
  /\ other.pc = "trigger"
  /\ \/ /\ OtherReturn
        /\ UNCHANGED <<published, seenItemsMap>>
     \/ /\ published' = Append(published, Payload(other.cur, other.finalItems,
                                                  other.newOnes, other.existing))
        /\ OtherForLoop(other.recent, other.elements)
  /\ UNCHANGED <<clock, suspended, db>>

\* The time-gated poller.
Next ==
  \/ SchedulePoll
  \/ ScheduleSkip
  \/ FetchPage
  \/ FindOne
  \/ UpdateOne
  \/ Trigger
  \/ Kitchen
  \/ Restart

Spec == Init /\ [][Next]_vars

\* Any one of the programs.
NextAll ==
  \/ Next
  \/ IntervalPoll
  \/ RunScript

SpecAll == InitAll /\ [][NextAll]_vars

\* The pollers that track line items by id.
InitTracked ==
  /\ program \in IdentityTracked
  /\ InitCommon

NextTracked ==
  \/ Next
  \/ IntervalPoll

SpecTracked == InitTracked /\ [][NextTracked]_vars

\* The time-gated poller against an upstream of more than one page: one order
\* more than the others start with, each carrying one item.
PagedUpstreams(t) ==
  LET n == MaxOrders + 1 IN
  {u \in [1..n -> UNION {{Order(id, c, <<[id |-> 1, name |-> LineItemName(id, 1)]>>) :
                            c \in {t - TwoHours - 1, t}} : id \in 1..n}] :
     \A k \in 1..n : u[k].id = n + 1 - k}

InitPaged ==
  /\ program = "timeGated"
  /\ InitLocals
  /\ upstream \in PagedUpstreams(now)

SpecPaged == InitPaged /\ [][Next]_vars

\* One process of the time-gated poller, alone on the collection and started
\* before the first order has been placed, with the hour of every run of
\* schedule on record.
InitHours ==
  /\ program = "timeGated"
  /\ InitCommon
  /\ upstream = <<>>

NextHours ==
  \/ ScheduleAnyHour
  \/ FetchPage
  \/ FindOne
  \/ UpdateOne
  \/ Trigger

SpecHours == InitHours /\ [][NextHours]_vars

\* One process of the poller of src/poller.js lines 1-188, alone on the
\* collection, with the ticks of setInterval as the timer delivers them.
InitInterval ==
  /\ program = "idTracked"
  /\ InitCommon
  /\ Len(upstream) <= MaxStart

NextInterval ==
  \/ IntervalPoll
  \/ IntervalOverlap
  \/ FetchPage
  \/ FindOne
  \/ UpdateOne
  \/ Trigger
  \/ OtherFetch
  \/ OtherFindOne
  \/ OtherUpdateOne
  \/ OtherTrigger

SpecInterval == InitInterval /\ [][NextInterval]_vars

\* ------------------------------------------------------------- properties
\* The upstream order of id o.
UpOrder(o) == CHOOSE x \in Range(upstream) : x.id = o

\* The orders announced in this cycle.
Announced == {published[k].orderId : k \in 1..Len(published)}

\* Order o carried the same set of item ids in the previous cycle of this process.
SameAsPrev(o) ==
  /\ prevIds # <<>>
  /\ o \in DOMAIN prevIds[1]
  /\ o \in Ids(upstream)
  /\ prevIds[1][o] = Ids(UpOrder(o).items)

\* The positions of u on the pages a cycle requests from offset `off` on when
\* nothing fails.
RECURSIVE Covered(_, _)
Covered(u, off) ==
  LET els == Page(u, off) IN
  IF els = <<>> THEN {}
  ELSE ((off + 1)..(off + Len(els)))
       \cup (IF LastPage(els, twoHoursAgo) THEN {} ELSE Covered(u, off + limit))

C2_PersistedStatusCarried ==
  (program = "timeGated" /\ pc \in {"updateOne", "trigger"} /\ existing # <<>>) =>
    /\ Len(finalItems) = Len(cur.items)
    /\ \A i \in 1..Len(cur.items) : \A j \in 1..Len(existing[1].items) :
         (existing[1].items[j].id = cur.items[i].id /\ existing[1].items[j].state # "new") =>
           /\ finalItems[i].id = cur.items[i].id
           /\ finalItems[i].state = existing[1].items[j].state
           /\ \A k \in 1..Len(filteredItems) :
                filteredItems[k].id = cur.items[i].id =>
                  filteredItems[k].state = existing[1].items[j].state

\* The merge has run on two fetched items persisted in the opposite order, one
\* of them advanced by the kitchen.
C2_Witness ==
  /\ program = "timeGated"
  /\ pc = "updateOne"
  /\ existing # <<>>
  /\ Len(existing[1].items) = 2
  /\ Len(cur.items) = 2
  /\ existing[1].items[1].id = cur.items[2].id
  /\ existing[1].items[2].id = cur.items[1].id
  /\ existing[1].items[1].state = "ready"
  /\ finalItems[2].state = "ready"
  /\ finalItems[1].state = "new"

\* C3: an item whose name is on the ignore list is in no persisted document
\* and in neither the items nor the newItems of any payload the time-gated
\* poller emits.
C3_IgnoredItemsNowhere ==
  program = "timeGated" =>
    /\ \A x \in DOMAIN db : \A k \in 1..Len(db[x].items) :
         db[x].items[k].name \notin ignoreItems
    /\ \A k \in 1..Len(published) :
         /\ \A i \in 1..Len(published[k].items) :
              published[k].items[i].name \notin ignoreItems
         /\ \A i \in 1..Len(published[k].newItems) :
              published[k].newItems[i] \notin ignoreItems

\* C4: when findOne or updateOne fails for an order, the time-gated poller
\* skips that order only: every later order of the same page and of the later
\* pages, inside the window and with items, is still processed in the cycle.
C4_FailureSkipsOnlyThatOrder ==
  (program = "timeGated" /\ pc = "timer" /\ lastError.kind \in {"findOne", "updateOne"}) =>
    LET at == CHOOSE k \in 1..Len(upstream) : upstream[k].id = lastError.order IN
    /\ lastError.order \notin written
    /\ \A k \in Covered(upstream, offset) :
         (k > at /\ upstream[k].createdTime >= twoHoursAgo /\ Len(upstream[k].items) > 0) =>
           upstream[k].id \in reached

\* C5: the time-gated poller enters an item id in the seen set of its order
\* only after the upsert of the order succeeded: while findOne or updateOne of
\* an order is awaited, none of its new items is in the seen set.
C5_SeenOnlyAfterUpsert ==
  (program = "timeGated" /\ pc \in {"findOne", "updateOne"}) =>
    \A k \in 1..Len(newOnes) :
      ~(cur.id \in DOMAIN seenItemsMap /\ newOnes[k].id \in seenItemsMap[cur.id])

C7_FurtherPageIffFullAndRecent ==
  [][ LET page == IF pc = "fetch" THEN Page(upstream, offset) ELSE elements
          got  == \/ pc \in {"findOne", "updateOne", "trigger"}
                  \/ pc = "fetch" /\ lastError'.kind \notin {"fetch", "network"}
      IN
      (/\ program = "timeGated"
       /\ kitchenOps' = kitchenOps
       /\ got
       /\ pc' \in {"timer", "fetch"}) =>
         /\ (pc' = "fetch") <=>
              (Len(page) = limit /\ page[Len(page)].createdTime >= twoHoursAgo)
         /\ pc' = "fetch" => offset' = offset + limit
         /\ pc' = "timer" => offset' = offset
    ]_vars

\* C8: an order created before the window is neither persisted nor announced
\* by the cycle, and it does not keep an order inside the window, before or
\* after it on the page, from being processed: a cycle that ended without
\* a failure has upserted every order with items of the window on its pages.
C8_OldOrdersFilteredNotBlocking ==
  program = "timeGated" =>
    /\ \A o \in reached \cup written \cup Announced : UpOrder(o).createdTime >= twoHoursAgo
    /\ (pc = "timer" /\ procCycle > 0 /\ lastError = NoError) =>
         \A k \in 1..Min(offset + limit, Len(upstream)) :
           (upstream[k].createdTime >= twoHoursAgo /\ Len(upstream[k].items) > 0) =>
             upstream[k].id \in written

\* A cycle has upserted an order of the window that follows an older order on
\* the page, and left the older one alone.
C8_Witness ==
  /\ program = "timeGated"
  /\ pc = "timer"
  /\ lastError = NoError
  /\ Len(upstream) = 2
  /\ upstream[1].createdTime < twoHoursAgo
  /\ Len(upstream[1].items) > 0
  /\ upstream[1].id \notin written
  /\ upstream[2].createdTime >= twoHoursAgo
  /\ upstream[2].id \in written

\* C9: an order fetched with an empty item list keeps its persisted items:
\* the time-gated poller writes nothing for it, and the name-keyed merge of
\* the test script and of the order-level poller yields the saved items, which
\* the upsert writes back.
C9_EmptyFetchKeepsItems ==
  /\ []((program # "timeGated" /\ pc = "updateOne" /\ Len(cur.items) = 0) =>
          finalItems = IF existing # <<>> THEN existing[1].items ELSE <<>>)
  /\ [][ /\ (program = "timeGated" /\ kitchenOps' = kitchenOps) =>
              \A o \in DOMAIN db :
                (o \in Ids(upstream) /\ Len(UpOrder(o).items) = 0 /\ upstream' = upstream) =>
                  (o \in DOMAIN db' /\ db'[o] = db[o])
         /\ (/\ program # "timeGated"
             /\ pc = "updateOne"
             /\ cur.id \in written'
             /\ Len(cur.items) = 0
             /\ existing # <<>>) =>
              db'[cur.id].items = existing[1].items
       ]_vars

\* The name-keyed merge of the order-level poller has run on an order fetched
\* with no items whose document holds items.
C9_Witness ==
  /\ program = "orderLevel"
  /\ pc = "updateOne"
  /\ Len(cur.items) = 0
  /\ existing # <<>>
  /\ Len(existing[1].items) > 0
  /\ finalItems = existing[1].items

\* C10: no upsert of any of the programs changes the state, the orderId or
\* the createdAt of a document that exists.
C10_InsertOnlyFieldsKept ==
  [][ kitchenOps' = kitchenOps =>
        \A o \in DOMAIN db :
          /\ o \in DOMAIN db'
          /\ db'[o].state = db[o].state
          /\ db'[o].orderId = db[o].orderId
          /\ db'[o].createdAt = db[o].createdAt
    ]_vars

\* An order the kitchen has finished has been upserted again, with other
\* items, and is still finished.
C10_Witness ==
  /\ pc = "trigger"
  /\ existing # <<>>
  /\ existing[1].state = "done"
  /\ cur.id \in written
  /\ db[cur.id].state = "done"
  /\ db[cur.id].orderId = cur.id
  /\ db[cur.id].createdAt = existing[1].createdAt
  /\ db[cur.id].items # existing[1].items

\* C11: a payload carries state "new" exactly when findOne found no document
\* of the order, the document being absent when the cycle read the
\* collection; for an order that had a document the field is undefined.
C11_StateFieldIffNoDocument ==
  [][ /\ (pc = "findOne" /\ pc' = "updateOne") =>
           (existing' = <<>> <=> cur.id \notin DOMAIN db)
      /\ (pc \in {"updateOne", "trigger"} /\ pc' \in {"updateOne", "trigger"}) =>
           (existing' = existing /\ cur' = cur)
      /\ Len(published') = Len(published) + 1 =>
           LET p == published'[Len(published')] IN
           /\ p.orderId = cur.id
           /\ (p.state = "new") <=> (existing = <<>>)
           /\ existing # <<>> => p.state = "undefined"
    ]_vars

\* One cycle has announced an order that had no document, with state "new",
\* and an order that had one, with state undefined.
C11_Witness ==
  \E j, k \in 1..Len(published) :
    /\ published[j].state = "new"
    /\ published[k].state = "undefined"
    /\ published[j].orderId # published[k].orderId
    /\ published[j].orderId \in DOMAIN db
    /\ published[k].orderId \in DOMAIN db

\* C12: a payload of the time-gated poller lists in newItems exactly the names
\* of the fetched items whose ids were not in the order's seen set when the
\* order was processed, and in items every fetched item, in fetched order,
\* with the status persisted under its id if there is one and "new" otherwise.
C12_PayloadNewItemsAndItems ==
  [][ program = "timeGated" =>
        /\ (pc # "findOne" /\ pc' = "findOne") =>
             newOnes' = SelectSeq(cur'.items,
                                  LAMBDA li : ~(/\ cur'.id \in DOMAIN seenItemsMap
                                                /\ li.id \in seenItemsMap[cur'.id]))
        /\ (pc = "findOne" /\ pc' = "updateOne") =>
             existing' = IF cur.id \in DOMAIN db THEN <<db[cur.id]>> ELSE <<>>
        /\ (pc \in {"findOne", "updateOne"} /\ pc' \in {"updateOne", "trigger"}) =>
             (newOnes' = newOnes /\ cur' = cur)
        /\ (pc = "updateOne" /\ pc' = "trigger") => existing' = existing
        /\ Len(published') = Len(published) + 1 =>
             LET p     == published'[Len(published')]
                 saved == IF existing # <<>> THEN existing[1].items ELSE <<>>
             IN
             /\ p.orderId = cur.id
             /\ p.newItems = [k \in 1..Len(newOnes) |-> newOnes[k].name]
             /\ Len(p.items) = Len(cur.items)
             /\ \A i \in 1..Len(cur.items) :
                  /\ p.items[i].id = cur.items[i].id
                  /\ p.items[i].name = cur.items[i].name
                  /\ IF \E j \in 1..Len(saved) : saved[j].id = cur.items[i].id
                     THEN \E j \in 1..Len(saved) :
                            saved[j].id = cur.items[i].id /\ p.items[i].state = saved[j].state
                     ELSE p.items[i].state = "new"
    ]_vars

\* The scenario of the README: Latte persisted as ready and seen, Latte and
\* Muffin fetched; the payload has Latte ready, Muffin new, newItems Muffin.
C12_Witness ==
  /\ program = "timeGated"
  /\ \E k \in 1..Len(published) :
       /\ published[k].items = <<[id |-> 1, name |-> "Latte", state |-> "ready"],
                                 [id |-> 2, name |-> "Muffin", state |-> "new"]>>
       /\ published[k].newItems = <<"Muffin">>
       /\ published[k].state = "undefined"

\* C13: in the pollers that track items by id, once a cycle has upserted an
\* order fetched with at least one item, the persisted items hold no item
\* whose id is not among the fetched ones.
C13_RemovedItemsDropped ==
  program \in IdentityTracked =>
    \A o \in written :
      Len(UpOrder(o).items) > 0 => Ids(db[o].items) \subseteq Ids(UpOrder(o).items)

\* An order persisted with an item that is gone upstream has been upserted
\* again, and the document has lost the item.
C13_Witness ==
  /\ program \in IdentityTracked
  /\ pc = "trigger"
  /\ existing # <<>>
  /\ Len(cur.items) > 0
  /\ \E id \in Ids(existing[1].items) : id \notin Ids(cur.items)
  /\ cur.id \in written
  /\ Ids(db[cur.id].items) = Ids(cur.items)

\* C14: a non-success response ends the cycle of the time-gated poller at
\* once: nothing is persisted or announced for the page, no further page is
\* requested, what earlier pages persisted stays, and the next run of schedule
\* is armed.
C14_FailedResponseEndsCycle ==
  [][ (program = "timeGated" /\ pc = "fetch" /\ lastError'.kind = "fetch") =>
        /\ pc' = "timer"
        /\ db' = db
        /\ published' = published
        /\ written' = written
        /\ reached' = reached
        /\ offset' = offset
        /\ inFlight' = 0
        /\ timers' = 1
    ]_vars

\* The request of the second page has failed after the first page was
\* persisted.
C14_Witness ==
  /\ program = "timeGated"
  /\ pc = "timer"
  /\ lastError.kind = "fetch"
  /\ offset = limit
  /\ written # {}
  /\ written \subseteq DOMAIN db
  /\ timers = 1
  /\ inFlight = 0

\* C15: under schedule at most one run of pollOnce is in flight: while a run
\* is in flight no invocation of schedule is pending, and one is pending
\* again only once the run has returned or thrown.
C15_OneCycleInFlight ==
  program = "timeGated" =>
    /\ inFlight \in {0, 1}
    /\ inFlight = 1 => timers = 0
    /\ inFlight = 0 => (timers = 1 /\ pc = "timer")

\* The second cycle of a process is awaiting its upsert, alone.
C15_Witness ==
  /\ program = "timeGated"
  /\ procCycle = 2
  /\ pc = "updateOne"
  /\ inFlight = 1
  /\ timers = 0

\* C16: when the publish for an order fails, the document the cycle has just
\* upserted for it is left as it is, with the title, the updatedAt and the
\* items of the upsert.
C16_PublishFailureKeepsDocument ==
  [][ (program = "timeGated" /\ pc = "trigger" /\ lastError'.kind = "trigger") =>
        /\ db' = db
        /\ cur.id \in DOMAIN db
        /\ db[cur.id].title = cur.title
        /\ db[cur.id].updatedAt = UpdatedAt(cur)
        /\ Len(db[cur.id].items) = Len(filteredItems)
        /\ \A k \in 1..Len(filteredItems) :
             /\ db[cur.id].items[k].id = filteredItems[k].id
             /\ db[cur.id].items[k].name = filteredItems[k].name
    ]_vars

\* A cycle has ended at a failed publish, and the order's document is there
\* with its items.
C16_Witness ==
  /\ program = "timeGated"
  /\ pc = "timer"
  /\ lastError.kind = "trigger"
  /\ lastError.order \in written
  /\ lastError.order \in DOMAIN db
  /\ Ids(db[lastError.order].items) # {}
  /\ published = <<>>

\* C17: within one process of the time-gated poller no item id of an order is
\* in newOnes in more than one cycle, whichever of the cycles fail at the
\* read, the write or the publish.
C17_NewlyArrivedAtMostOnce ==
  [][ (program = "timeGated" /\ pc # "findOne" /\ pc' = "findOne") =>
        \A k \in 1..Len(newOnes') : <<cur'.id, newOnes'[k].id>> \notin counted
    ]_vars

\* The second cycle of a process processes an order whose items the first
\* cycle counted as new before it failed; none of them is new again.
C17_Witness ==
  /\ program = "timeGated"
  /\ procCycle = 2
  /\ pc = "findOne"
  /\ cur.items # <<>>
  /\ newOnes = <<>>
  /\ cur.id \notin DOMAIN db
  /\ \A k \in 1..Len(cur.items) : <<cur.id, cur.items[k].id>> \in counted

\* C18: no write of the poller replaces the persisted status of an item that
\* stays in the document by another value, also when another writer has set
\* the status between the poller's findOne and its updateOne.
C18_StatusNeverReplaced ==
  [][ (program = "timeGated" /\ kitchenOps' = kitchenOps) =>
        \A o \in DOMAIN db :
          /\ o \in DOMAIN db'
          /\ \A k \in 1..Len(db[o].items) : \A j \in 1..Len(db'[o].items) :
               db'[o].items[j].id = db[o].items[k].id =>
                 db'[o].items[j].state = db[o].items[k].state
    ]_vars

\* C19: a cycle that ended without an error has upserted every upstream order
\* that is inside the window and has an item, on whatever page it is and in
\* whatever order the upstream returns the records.
C19_EveryWindowOrderProcessed ==
  (program = "timeGated" /\ pc = "timer" /\ procCycle > 0 /\ lastError = NoError) =>
    \A k \in 1..Len(upstream) :
      (upstream[k].createdTime >= twoHoursAgo /\ Len(upstream[k].items) > 0) =>
        upstream[k].id \in written

\* C20: no upsert of the time-gated poller writes an empty items list.
C20_NoEmptyItemsWritten ==
  program = "timeGated" => \A o \in written : Len(db[o].items) > 0

\* C21: in the time-gated poller, the first cycle of a restarted process that
\* processes an order with a persisted document takes every fetched item for
\* new and publishes all their names in newItems; in the payload every item
\* with a persisted id has its persisted status and state is undefined.
C21_RestartAnnouncesAllAgain ==
  [][ program = "timeGated" =>
        /\ (pc # "findOne" /\ pc' = "findOne" /\ cur'.id \notin DOMAIN seenItemsMap) =>
             newOnes' = cur'.items
        /\ (pc = "updateOne" /\ procCycle = 1 /\ existing # <<>> /\ cur.id \in written') =>
             pc' = "trigger"
        /\ (Len(published') = Len(published) + 1 /\ procCycle = 1 /\ existing # <<>>) =>
             LET p == published'[Len(published')] IN
             /\ p.orderId = cur.id
             /\ p.newItems = [k \in 1..Len(cur.items) |-> cur.items[k].name]
             /\ p.state = "undefined"
             /\ \A i \in 1..Len(cur.items) : \A j \in 1..Len(existing[1].items) :
                  existing[1].items[j].id = cur.items[i].id =>
                    (p.items[i].id = cur.items[i].id
                     /\ p.items[i].state = existing[1].items[j].state)
    ]_vars

\* The first cycle after a restart has announced both items of a persisted
\* order as new, the first of them with the status the kitchen gave it.
C21_Witness ==
  /\ program = "timeGated"
  /\ procCycle = 1
  /\ cycle = 2
  /\ \E k \in 1..Len(published) :
       /\ published[k].state = "undefined"
       /\ Len(published[k].newItems) = 2
       /\ published[k].items[1].state = "ready"
       /\ published[k].items[2].state = "new"

\* C22: in the poller started with setInterval no run of pollOnce starts
\* while another is paging or processing, so no two runs are ever both between
\* their read and their upsert of one order's document.
C22_IntervalCyclesNeverOverlap ==
  program = "idTracked" =>
    /\ inFlight <= 1
    /\ ~(/\ pc = "updateOne"
         /\ other.pc = "updateOne"
         /\ other.cur.id = cur.id)

\* C23: the order-level poller does not persist an order it first observes
\* with no items, and persists it with its items once a later cycle of the
\* process finds it with at least one.
C23_OrderLevelDefersEmptyOrder ==
  program = "orderLevel" =>
    /\ \A o \in written : Len(UpOrder(o).items) > 0
    /\ (pc = "timer" /\ procCycle > 0 /\ lastError = NoError) =>
         \A o \in DOMAIN firstObs :
           (/\ firstObs[o] = "empty"
            /\ Len(UpOrder(o).items) > 0
            /\ UpOrder(o).createdTime >= twoHoursAgo) =>
             (o \in DOMAIN db /\ Len(db[o].items) > 0)

\* C24: the name-keyed merge yields, for an order fetched with at least one
\* named item, exactly one entry per distinct fetched name and no entry for a
\* name that only the persisted items have: both the merge the test script
\* has run and the merge of src/poller.js lines 507-514 on the same input.
C24_NameMergeHoldsFetchedNamesOnly ==
  (program \in {"testScript", "orderLevel"} /\ pc = "updateOne"
   /\ Len(cloverNames(cur.items)) > 0) =>
    LET fetched == Range(cloverNames(cur.items))
        saved   == IF existing # <<>> THEN existing[1].items ELSE <<>>
        third   == NameMergeAll(cloverNames(cur.items), saved)
    IN
    /\ {finalItems[k].name : k \in 1..Len(finalItems)} = fetched
    /\ Len(finalItems) = Cardinality(fetched)
    /\ {third[k].name : k \in 1..Len(third)} = fetched
    /\ Len(third) = Cardinality(fetched)

\* C25: the time-gated poller publishes for an order only once its upsert has
\* succeeded in the cycle, the upsert being awaited only after the read has
\* returned; nothing is published for an order whose read or upsert failed.
C25_PublishOnlyAfterUpsert ==
  /\ []((program = "timeGated" /\ lastError.kind \in {"findOne", "updateOne"}) =>
          lastError.order \notin Announced)
  /\ [][ program = "timeGated" =>
           /\ Len(published') = Len(published) + 1 =>
                (pc = "trigger" /\ cur.id \in written /\ cur.id \in DOMAIN db
                 /\ published'[Len(published')].orderId = cur.id)
           /\ (pc' = "trigger" /\ pc # "trigger") => (pc = "updateOne" /\ cur.id \in written')
           /\ (pc' = "updateOne" /\ pc # "updateOne") => pc = "findOne"
           /\ (written' # written /\ written' # {}) =>
                (pc = "updateOne" /\ written' = written \cup {cur.id})
       ]_vars

\* One order has been upserted and announced, and the read of the next has
\* failed: that one is not announced.
C25_Witness ==
  /\ program = "timeGated"
  /\ pc = "timer"
  /\ Len(published) = 1
  /\ published[1].orderId \in written
  /\ lastError.kind = "findOne"
  /\ lastError.order \notin Announced
  /\ lastError.order \notin written

\* C26: whenever a run of schedule ends, pollOnce having completed, returned
\* early or thrown, the next run is armed; with no run in flight one is always
\* pending.
C26_NextRunAlwaysArmed ==
  /\ []((program = "timeGated" /\ inFlight = 0) => timers >= 1)
  /\ [][ (program = "timeGated" /\ inFlight' < inFlight) => timers' = timers + 1 ]_vars

\* pollOnce has thrown out of an upsert in the second cycle, and the next run
\* is pending.
C26_Witness ==
  /\ program = "timeGated"
  /\ cycle = 2
  /\ lastError.kind = "updateOne"
  /\ pc = "timer"
  /\ inFlight = 0
  /\ timers = 1

\* C27: a run of schedule starts pollOnce exactly when (UTC hour + 20) mod 24
\* is between 11 and 23; a run at any other hour fetches nothing, reads and
\* writes no document and publishes nothing, and no cycle is ever in progress
\* under such an hour.
C27_PollOnlyInsideHours ==
  /\ []((program = "timeGated" /\ pc # "timer") => (utcHour + 20) % 24 \in 11..23)
  /\ [][ program = "timeGated" =>
           /\ inFlight' = inFlight + 1 =>
                (timers' < timers /\ (utcHour' + 20) % 24 \in 11..23)
           /\ (utcHour' # utcHour \/ timers' < timers) =>
                IF (utcHour' + 20) % 24 \in 11..23
                THEN inFlight' = inFlight + 1 /\ pc' = "fetch" /\ cycle' = cycle + 1
                ELSE /\ (utcHour' + 20) % 24 < 11
                     /\ UNCHANGED <<pc, inFlight, cycle, offset, elements, db, existing,
                                    written, reached, published, seenItemsMap>>
       ]_vars

\* A cycle has upserted an order, and the run of schedule after it read UTC
\* hour 4, midnight by the clock of the scheduler: nothing is in progress.
C27_Witness ==
  /\ program = "timeGated"
  /\ utcHour = 4
  /\ cycle = 1
  /\ procCycle = 1
  /\ written # {}
  /\ pc = "timer"
  /\ inFlight = 0

====
